---- MODULE Spec2Model ----
(***************************************************************************)
(* Tai Lam traffic simulator: the Road model, the simulation engine        *)
(* (TrafficSimulator) and the rule-based toll pricing controllers.         *)
(*                                                                         *)
(* Numbers.  The Python code computes in floats; the model computes the    *)
(* same expressions exactly:                                               *)
(*   - money (toll price) is an integer number of 1/Scale HKD;             *)
(*   - cumulative revenue and travel times are exact naturals kept as      *)
(*     little-endian sequences of base-10000 limbs ("Big"), because        *)
(*     capacity^4 does not fit the 32-bit integers of the model checker;   *)
(*   - a travel time of road r is the numerator of a fraction whose        *)
(*     denominator is TravelTimeDen(r) = 1000 * capacity^4;                *)
(*   - a weather factor is given in tenths (1.8 is 18);                    *)
(*   - a congestion level is a pair <<num, den>>;                          *)
(*   - a price multiplier is given in thousandths (1.5*1.2*1.3 is 2340).   *)
(***************************************************************************)
EXTENDS Integers, Sequences, FiniteSets, TLC

VARIABLES
    roads,          \* TrafficSimulator.roads: road name -> current_vehicles
    vehicles,       \* TrafficSimulator.vehicles: sequence of (vehicle, route)
    current_time,   \* TrafficSimulator.current_time, in minutes
    toll_price,     \* TrafficSimulator.toll_price, in 1/Scale HKD
    revenue,        \* TrafficSimulator.revenue, Big number of 1/Scale HKD
    traffic_data,   \* TrafficSimulator.traffic_data: sequence of snapshots
    calls,          \* calls the model followed since its initial state / reset
    lastOp,         \* the call that produced this state
    road,           \* a Road object on its own: its config name and occupancy
    pstate,         \* the state dict handed to a pricing strategy
    ret,            \* the value returned by the last call
    simulation_running, \* dashboard/app.py global: the loop's run flag
    threads,        \* the background threads started so far, oldest first;
                    \* the global simulation_thread is the last of them
    simulation_data,    \* dashboard/app.py global: snapshots the loops appended
    stored_data,    \* the dcc.Store 'simulation-store' of the dashboard
    config,         \* config.py as the engine is built on it: ROADS, TOLL_CONFIG
    q_table         \* QLearningTollAgent.q_table: state key -> the (action,
                    \* Q-value) entries of that state in insertion order

vars == <<roads, vehicles, current_time, toll_price, revenue, traffic_data,
          calls, lastOp, road, pstate, ret,
          simulation_running, threads, simulation_data, stored_data, config, q_table>>

dashVars == <<simulation_running, threads, simulation_data, stored_data>>

engineVars == <<roads, vehicles, current_time, toll_price, revenue,
                traffic_data, calls>>

(***************************************************************************)
(* Bounds of the model.                                                    *)
(***************************************************************************)
MaxCalls == 3        \* engine calls followed within one run
MaxActive == 2       \* vehicles on the roads at one time
MaxNew == 1          \* vehicles generated by one tick
MaxOver == 3         \* how far a Road object is filled beyond capacity

(***************************************************************************)
(* Exact arithmetic on naturals beyond 2^31.                               *)
(***************************************************************************)
Limb == 10000

Min(a, b) == IF a <= b THEN a ELSE b

Max(a, b) == IF a >= b THEN a ELSE b

Abs(a) == IF a < 0 THEN -a ELSE a

RECURSIVE Pow(_, _)
Pow(b, e) == IF e = 0 THEN 1 ELSE b * Pow(b, e - 1)

RECURSIVE BigFromNat(_)
BigFromNat(n) ==
    IF n = 0 THEN <<>> ELSE <<n % Limb>> \o BigFromNat(n \div Limb)

RECURSIVE BigMulCarry(_, _, _)
BigMulCarry(a, m, carry) ==
    IF a = <<>> THEN BigFromNat(carry)
    ELSE LET t == Head(a) * m + carry
         IN  <<t % Limb>> \o BigMulCarry(Tail(a), m, t \div Limb)

\* a * m for a Big a and a natural m < 200000
BigMulSmall(a, m) == IF m = 0 THEN <<>> ELSE BigMulCarry(a, m, 0)

RECURSIVE BigAddCarry(_, _, _)
BigAddCarry(a, b, carry) ==
    IF a = <<>> /\ b = <<>> THEN BigFromNat(carry)
    ELSE LET x == IF a = <<>> THEN 0 ELSE Head(a)
             y == IF b = <<>> THEN 0 ELSE Head(b)
             t == x + y + carry
         IN  <<t % Limb>> \o BigAddCarry(IF a = <<>> THEN a ELSE Tail(a),
                                         IF b = <<>> THEN b ELSE Tail(b),
                                         t \div Limb)

BigAdd(a, b) == BigAddCarry(a, b, 0)

RECURSIVE BigLessFrom(_, _, _)
BigLessFrom(a, b, i) ==
    IF i = 0 THEN FALSE
    ELSE IF a[i] # b[i] THEN a[i] < b[i]
    ELSE BigLessFrom(a, b, i - 1)

BigLess(a, b) ==
    \/ Len(a) < Len(b)
    \/ Len(a) = Len(b) /\ BigLessFrom(a, b, Len(a))

BigLeq(a, b) == ~BigLess(b, a)

BigMax(a, b) == IF BigLess(a, b) THEN b ELSE a

(***************************************************************************)
(* config.py                                                               *)
(***************************************************************************)
RoadNames == {"tai_lam_tunnel", "tuen_mun_road", "nt_circular_road"}

ROADS ==
    [r \in RoadNames |->
        CASE r = "tai_lam_tunnel"   -> [capacity |-> 3000, base_travel_time |-> 4]
          [] r = "tuen_mun_road"    -> [capacity |-> 4500, base_travel_time |-> 18]
          [] r = "nt_circular_road" -> [capacity |-> 3500, base_travel_time |-> 16]]

ScenarioNames == {"normal", "rush_hour", "rainstorm", "concert_night"}

\* weather_factor in tenths; demand_multiplier is not modelled, the demand
\* it scales is drawn from Poisson distributions and so is any natural
SCENARIOS ==
    [s \in ScenarioNames |->
        CASE s = "normal"        -> [weather_factor |-> 10]
          [] s = "rush_hour"     -> [weather_factor |-> 10]
          [] s = "rainstorm"     -> [weather_factor |-> 18]
          [] s = "concert_night" -> [weather_factor |-> 10]]

(***************************************************************************)
(* Return values and the record of the last call.                          *)
(***************************************************************************)
None == <<>>

Returned(v) == [raised |-> FALSE, value |-> v]

\* a call that ended by raising the exception exc to its caller
Raised(exc) == [raised |-> TRUE, value |-> exc]

Call(name, arg, scenario, before) ==
    [name |-> name, arg |-> arg, scenario |-> scenario, before |-> before]

NoCall == Call("none", 0, "", 0)

(***************************************************************************)
(* class Road (simulator/traffic_simulator.py)                             *)
(***************************************************************************)
\* congestion_ratio ** 4 = Pow4(n) / Pow4(capacity)
Pow4(n) == BigMulSmall(BigMulSmall(BigFromNat(n * n), Abs(n)), Abs(n))

\* capacity ** 4 of every road
Capacity4 == [r \in RoadNames |-> Pow4(ROADS[r].capacity)]

\* the denominator of every travel time of road r
TravelTimeDen == [r \in RoadNames |-> BigMulSmall(Capacity4[r], 1000)]

\* base_travel_time as a travel time of road r
BaseTravelTime ==
    [r \in RoadNames |-> BigMulSmall(TravelTimeDen[r], ROADS[r].base_travel_time)]

\* congestion_factor = 1 + 0.15 * (congestion_ratio ** 4), times 100 capacity^4
congestion_factor(r, n) ==
    BigAdd(BigMulSmall(Capacity4[r], 100), BigMulSmall(Pow4(n), 15))

calculate_travel_time_clamped_ratio(r, n, w) ==
    BigMax(BigMulSmall(BigMulSmall(congestion_factor(r, Min(n, ROADS[r].capacity)),
                                   ROADS[r].base_travel_time), w),
           BaseTravelTime[r])

calculate_travel_time_delay_only(r, n, w) ==
    BigMulSmall(BigMulSmall(BigMulSmall(Pow4(n), 15),
                            ROADS[r].base_travel_time), w)

\* Road.calculate_travel_time for occupancy n and weather factor w (tenths)
calculate_travel_time(r, n, w) ==
    LET travel_time ==
            BigMulSmall(BigMulSmall(congestion_factor(r, n),
                                    ROADS[r].base_travel_time), w)
    IN  BigMax(travel_time, BaseTravelTime[r])

\* calculate_travel_time at the occupancies and weather factors the engine
\* reaches, computed once
WeatherFactors == {SCENARIOS[s].weather_factor : s \in ScenarioNames}

EngineTravelTimes ==
    [r \in RoadNames, n \in 0..MaxActive, w \in WeatherFactors |->
        calculate_travel_time(r, n, w)]

travel_time_of(r, n, w) ==
    IF n \in 0..MaxActive /\ w \in WeatherFactors
    THEN EngineTravelTimes[r, n, w]
    ELSE calculate_travel_time(r, n, w)

add_vehicle(n) == n + 1

remove_vehicle_unclamped(n) == n - 1

remove_vehicle(n) == Max(0, n - 1)

\* min(1.0, current_vehicles / capacity) as <<numerator, denominator>>
get_congestion_level(r, n) == <<Min(ROADS[r].capacity, n), ROADS[r].capacity>>

(***************************************************************************)
(* Toll configuration (config.py) and the engine after construction.       *)
(***************************************************************************)
\* one HKD in money units: exact for hundredths of a HKD and for
\* MaxCalls successive changes by max_change_percent
Scale == 100 * Pow(5, MaxCalls)

TOLL_CONFIG ==
    [base_price |-> 30 * Scale, min_price |-> 18 * Scale,
     max_price |-> 55 * Scale, max_change_percent |-> 20]

\* config.py as written
ModuleConfig == [roads |-> ROADS, toll |-> TOLL_CONFIG]

\* TrafficSimulator.__init__ at wall-clock time now (minutes)
EngineInit(now) ==
    /\ roads = [r \in RoadNames |-> 0]
    /\ vehicles = <<>>
    /\ current_time = now
    /\ toll_price = TOLL_CONFIG.base_price
    /\ revenue = <<>>
    /\ traffic_data = <<>>
    /\ calls = 0

\* the module globals of dashboard/app.py after import; they stay so in
\* every run that has no dashboard
DashGlobalsInit ==
    /\ simulation_running = FALSE
    /\ threads = <<>>
    /\ simulation_data = <<>>
    /\ stored_data = <<>>

(***************************************************************************)
(* RoadSpec: one Road object driven through its four methods.              *)
(***************************************************************************)
MaxWeather == 30     \* largest weather factor (tenths) passed to a Road

WeatherInputs == WeatherFactors \cup {MaxWeather}

RoadInit ==
    /\ EngineInit(0)
    /\ road \in {[name |-> r, current_vehicles |-> 0] : r \in RoadNames}
    /\ pstate = None
    /\ ret = Returned(None)
    /\ lastOp = NoCall
    /\ DashGlobalsInit
    /\ config = ModuleConfig
    /\ q_table = None

Road_add_vehicle ==
    /\ road.current_vehicles < ROADS[road.name].capacity + MaxOver
    /\ road' = [road EXCEPT !.current_vehicles = add_vehicle(@)]
    /\ ret' = Returned(None)
    /\ lastOp' = Call("add_vehicle", 0, "", road.current_vehicles)
    /\ UNCHANGED <<engineVars, pstate, dashVars, config, q_table>>

Road_remove_vehicle ==
    /\ road' = [road EXCEPT !.current_vehicles = remove_vehicle(@)]
    /\ ret' = Returned(None)
    /\ lastOp' = Call("remove_vehicle", 0, "", road.current_vehicles)
    /\ UNCHANGED <<engineVars, pstate, dashVars, config, q_table>>

Road_calculate_travel_time ==
    \E w \in WeatherInputs :
        /\ ret' = Returned(calculate_travel_time(road.name, road.current_vehicles, w))
        /\ lastOp' = Call("calculate_travel_time", w, "", road.current_vehicles)
        /\ UNCHANGED <<engineVars, pstate, road, dashVars, config, q_table>>

Road_get_congestion_level ==
    /\ ret' = Returned(get_congestion_level(road.name, road.current_vehicles))
    /\ lastOp' = Call("get_congestion_level", 0, "", road.current_vehicles)
    /\ UNCHANGED <<engineVars, pstate, road, dashVars, config, q_table>>

RoadNext ==
    \/ Road_add_vehicle
    \/ Road_remove_vehicle
    \/ Road_calculate_travel_time
    \/ Road_get_congestion_level

RoadSpec == RoadInit /\ [][RoadNext]_vars

\* C4: for every road, after any sequence of add_vehicle and remove_vehicle
\* calls the occupancy is never negative and get_congestion_level() lies in
\* [0,1]; remove_vehicle on an empty road leaves the occupancy at 0 and
\* raises no error.
Thm_C4_OccupancyAndCongestionBounded ==
    /\ road.current_vehicles >= 0
    /\ LET c == get_congestion_level(road.name, road.current_vehicles)
       IN  c[2] > 0 /\ 0 <= c[1] /\ c[1] <= c[2]
    /\ lastOp.name = "get_congestion_level"
          => 0 <= ret.value[1] /\ ret.value[1] <= ret.value[2]
    /\ (lastOp.name = "remove_vehicle" /\ lastOp.before = 0)
          => road.current_vehicles = 0 /\ ~ret.raised

Wit_C4_RemoveOnEmptyRoad ==
    /\ lastOp.name = "remove_vehicle"
    /\ lastOp.before = 0
    /\ road.current_vehicles = 0

\* C5: for every road, every non-negative occupancy and every weather
\* factor >= 1, calculate_travel_time returns at least base_travel_time.
Thm_C5_TravelTimeAtLeastBase ==
    (lastOp.name = "calculate_travel_time" /\ lastOp.before >= 0 /\ lastOp.arg >= 10)
        => BigLeq(BaseTravelTime[road.name], ret.value)

Wit_C5_CongestedTravelTime ==
    /\ lastOp.name = "calculate_travel_time"
    /\ lastOp.arg = 18
    /\ road.current_vehicles > 0
    /\ BigLess(BaseTravelTime[road.name], ret.value)

\* C6: travel time is max(base, base * (1 + 0.15 * ratio^4) * weather) of
\* the unclamped ratio occupancy/capacity, so above capacity it keeps
\* strictly increasing with occupancy while get_congestion_level stays at
\* exactly 1.0.
Thm_C6_UnclampedTravelTime ==
    LET r == road.name
        n == road.current_vehicles
        cap == ROADS[r].capacity
        base == ROADS[r].base_travel_time
        cap4 == BigFromNat(cap * cap)
        unclamped ==
            BigMulSmall(
                BigAdd(BigMulSmall(BigMulSmall(BigMulSmall(cap4, cap), cap), 100),
                       BigMulSmall(BigMulSmall(BigMulSmall(BigFromNat(n * n), n), n), 15)),
                base * lastOp.arg)
    IN  /\ lastOp.name = "calculate_travel_time"
            => ret.value = BigMax(unclamped, BaseTravelTime[r])
        /\ (lastOp.name = "calculate_travel_time" /\ n > cap)
            => BigLess(calculate_travel_time(r, n - 1, lastOp.arg), ret.value)
        /\ (lastOp.name = "get_congestion_level" /\ n > cap)
            => ret.value[1] = ret.value[2]

Wit_C6_TravelTimeAboveCapacity ==
    /\ lastOp.name = "calculate_travel_time"
    /\ road.current_vehicles > ROADS[road.name].capacity + 1

(***************************************************************************)
(* class TrafficSimulator (simulator/traffic_simulator.py)                 *)
(***************************************************************************)
\* values datetime.now() takes at construction and reset: 06:58 and 21:57
WallClockTimes == {6 * 60 + 58, 21 * 60 + 57}

\* proposed prices handed to update_toll_price, far outside the bounds too
Proposals == {p * Scale : p \in {-100, 20, 33, 100}}

\* scenarios handed to simulate_step: one of each weather factor
ScenarioInputs == {"normal", "rainstorm"}

Hour(t) == (t \div 60) % 24

new_toll_price_no_bounds(price, new_price) ==
    LET max_change == (price * TOLL_CONFIG.max_change_percent) \div 100
    IN  Max(price - max_change, Min(price + max_change, new_price))

new_toll_price_no_rate_limit(price, new_price) ==
    Max(TOLL_CONFIG.min_price, Min(TOLL_CONFIG.max_price, new_price))

new_toll_price_ten_percent(price, new_price) ==
    LET max_change == (price * 10) \div 100
        limited == Max(price - max_change, Min(price + max_change, new_price))
    IN  Max(TOLL_CONFIG.min_price, Min(TOLL_CONFIG.max_price, limited))

new_toll_price_change_above_minimum(price, new_price) ==
    LET max_change == ((price - TOLL_CONFIG.min_price)
                          * TOLL_CONFIG.max_change_percent) \div 100
        limited == Max(price - max_change, Min(price + max_change, new_price))
    IN  Max(TOLL_CONFIG.min_price, Min(TOLL_CONFIG.max_price, limited))

\* the toll price TrafficSimulator.update_toll_price(new_price) assigns
\* when the price is price
new_toll_price(price, new_price) ==
    LET max_change == (price * TOLL_CONFIG.max_change_percent) \div 100
        limited == Max(price - max_change, Min(price + max_change, new_price))
    IN  Max(TOLL_CONFIG.min_price, Min(TOLL_CONFIG.max_price, limited))

RECURSIVE GenerateVehicles_charges_every_route(_, _, _, _, _)
GenerateVehicles_charges_every_route(st, chosen, i, now, price) ==
    IF i > Len(chosen) THEN st
    ELSE LET chosen_route == chosen[i]
             vehicle == [id |-> <<now, i - 1>>, departure_time |-> now,
                         route |-> chosen_route]
         IN  GenerateVehicles_charges_every_route(
                 [roads |-> [st.roads EXCEPT ![chosen_route] = add_vehicle(@)],
                  revenue |-> BigAdd(st.revenue, BigFromNat(price)),
                  vehicles |-> Append(st.vehicles, vehicle)],
                 chosen, i + 1, now, price)

\* the loop "for i in range(new_vehicles)" of simulate_step: st is the
\* engine's [roads, revenue, vehicles], chosen the routes the logit draws
\* of route_choice_model select, in order
RECURSIVE GenerateVehicles(_, _, _, _, _)
GenerateVehicles(st, chosen, i, now, price) ==
    IF i > Len(chosen) THEN st
    ELSE LET chosen_route == chosen[i]
             vehicle == [id |-> <<now, i - 1>>, departure_time |-> now,
                         route |-> chosen_route]
         IN  GenerateVehicles(
                 [roads |-> [st.roads EXCEPT ![chosen_route] = add_vehicle(@)],
                  revenue |-> IF chosen_route = "tai_lam_tunnel"
                              THEN BigAdd(st.revenue, BigFromNat(price))
                              ELSE st.revenue,
                  vehicles |-> Append(st.vehicles, vehicle)],
                 chosen, i + 1, now, price)

\* the weather factor of the tick in which a vehicle departed at time
\* departure, w being that of the running tick
DepartureWeather(departure, w) ==
    IF \E k \in 1..Len(traffic_data) : traffic_data[k].timestamp = departure
    THEN LET k == CHOOSE k \in 1..Len(traffic_data) :
                      traffic_data[k].timestamp = departure
         IN  SCENARIOS[traffic_data[k].scenario].weather_factor
    ELSE w

RECURSIVE CompleteVehicles_departure_weather(_, _, _, _, _, _)
CompleteVehicles_departure_weather(rds, vs, i, completed, now, w) ==
    IF i > Len(vs) THEN [roads |-> rds, completed |-> completed]
    ELSE LET route == vs[i].route
             travel_time == travel_time_of(route, rds[route],
                                DepartureWeather(vs[i].departure_time, w))
             elapsed == BigMulSmall(TravelTimeDen[route], now - vs[i].departure_time)
         IN  IF BigLeq(travel_time, elapsed)
             THEN CompleteVehicles_departure_weather(
                      [rds EXCEPT ![route] = remove_vehicle(@)],
                      vs, i + 1, completed \cup {i}, now, w)
             ELSE CompleteVehicles_departure_weather(
                      rds, vs, i + 1, completed, now, w)

RECURSIVE CompleteVehicles_keeps_occupancy(_, _, _, _, _, _)
CompleteVehicles_keeps_occupancy(rds, vs, i, completed, now, w) ==
    IF i > Len(vs) THEN [roads |-> rds, completed |-> completed]
    ELSE LET route == vs[i].route
             travel_time == travel_time_of(route, rds[route], w)
             elapsed == BigMulSmall(TravelTimeDen[route], now - vs[i].departure_time)
         IN  IF BigLeq(travel_time, elapsed)
             THEN CompleteVehicles_keeps_occupancy(
                      rds, vs, i + 1, completed \cup {i}, now, w)
             ELSE CompleteVehicles_keeps_occupancy(
                      rds, vs, i + 1, completed, now, w)

\* the loop "for i, (vehicle, route) in enumerate(self.vehicles)": returns
\* the roads after the removals and the indices of the completed vehicles
RECURSIVE CompleteVehicles(_, _, _, _, _, _)
CompleteVehicles(rds, vs, i, completed, now, w) ==
    IF i > Len(vs) THEN [roads |-> rds, completed |-> completed]
    ELSE LET route == vs[i].route
             travel_time == travel_time_of(route, rds[route], w)
             elapsed == BigMulSmall(TravelTimeDen[route], now - vs[i].departure_time)
         IN  IF BigLeq(travel_time, elapsed)
             THEN CompleteVehicles([rds EXCEPT ![route] = remove_vehicle(@)],
                                   vs, i + 1, completed \cup {i}, now, w)
             ELSE CompleteVehicles(rds, vs, i + 1, completed, now, w)

\* self.vehicles after "for i in reversed(completed_vehicles): pop(i)"
RECURSIVE PopCompleted(_, _, _)
PopCompleted(vs, completed, i) ==
    IF i > Len(vs) THEN <<>>
    ELSE (IF i \in completed THEN <<>> ELSE <<vs[i]>>)
         \o PopCompleted(vs, completed, i + 1)

Snapshot_after_advance(now, scenario, price, rev, rds) ==
    [timestamp |-> now + 1, scenario |-> scenario, toll_price |-> price,
     revenue |-> rev,
     roads |-> [r \in RoadNames |->
                  [vehicles |-> rds[r],
                   congestion |-> get_congestion_level(r, rds[r]),
                   travel_time |-> travel_time_of(
                                       r, rds[r], SCENARIOS[scenario].weather_factor)]]]

Snapshot(now, scenario, price, rev, rds) ==
    [timestamp |-> now, scenario |-> scenario, toll_price |-> price,
     revenue |-> rev,
     roads |-> [r \in RoadNames |->
                  [vehicles |-> rds[r],
                   congestion |-> get_congestion_level(r, rds[r]),
                   travel_time |-> travel_time_of(
                                       r, rds[r], SCENARIOS[scenario].weather_factor)]]]

Init ==
    /\ \E now \in WallClockTimes : EngineInit(now)
    /\ road = None
    /\ pstate = None
    /\ ret = Returned(None)
    /\ lastOp = NoCall
    /\ DashGlobalsInit
    /\ config = ModuleConfig
    /\ q_table = None

\* the sequences of routes the logit draws can select for k new vehicles
RECURSIVE RouteChoices(_)
RouteChoices(k) ==
    IF k = 0 THEN {<<>>}
    ELSE {Append(c, r) : c \in RouteChoices(k - 1), r \in RoadNames}

simulate_step ==
    \E scenario \in ScenarioInputs, new_vehicles \in 0..MaxNew :
      \E chosen \in RouteChoices(new_vehicles) :
        /\ calls < MaxCalls
        /\ Len(vehicles) + new_vehicles <= MaxActive
        /\ LET w == SCENARIOS[scenario].weather_factor
               gen == GenerateVehicles(
                          [roads |-> roads, revenue |-> revenue, vehicles |-> vehicles],
                          chosen, 1, current_time, toll_price)
               done == CompleteVehicles(gen.roads, gen.vehicles, 1, {}, current_time, w)
               traffic_snapshot ==
                   Snapshot(current_time, scenario, toll_price, gen.revenue, done.roads)
           IN  /\ roads' = done.roads
               /\ revenue' = gen.revenue
               /\ vehicles' = PopCompleted(gen.vehicles, done.completed, 1)
               /\ traffic_data' = Append(traffic_data, traffic_snapshot)
               /\ current_time' = current_time + 1
               /\ ret' = Returned(traffic_snapshot)
        /\ calls' = calls + 1
        /\ lastOp' = Call("simulate_step", new_vehicles, scenario, Len(vehicles))
        /\ UNCHANGED <<toll_price, road, pstate, dashVars, config, q_table>>

update_toll_price_zeroes_revenue ==
    \E new_price \in Proposals :
        /\ calls < MaxCalls
        /\ toll_price' = new_toll_price(toll_price, new_price)
        /\ revenue' = <<>>
        /\ calls' = calls + 1
        /\ ret' = Returned(None)
        /\ lastOp' = Call("update_toll_price", new_price, "", toll_price)
        /\ UNCHANGED <<roads, vehicles, current_time, traffic_data,
                       road, pstate, dashVars, config, q_table>>

update_toll_price_rewrites_history ==
    \E new_price \in Proposals :
        /\ calls < MaxCalls
        /\ toll_price' = new_toll_price(toll_price, new_price)
        /\ traffic_data' = [i \in 1..Len(traffic_data) |->
                               [traffic_data[i] EXCEPT !.toll_price = toll_price']]
        /\ calls' = calls + 1
        /\ ret' = Returned(None)
        /\ lastOp' = Call("update_toll_price", new_price, "", toll_price)
        /\ UNCHANGED <<roads, vehicles, current_time, revenue,
                       road, pstate, dashVars, config, q_table>>

\* lastOp.before is the price before the call
update_toll_price ==
    \E new_price \in Proposals :
        /\ calls < MaxCalls
        /\ toll_price' = new_toll_price(toll_price, new_price)
        /\ calls' = calls + 1
        /\ ret' = Returned(None)
        /\ lastOp' = Call("update_toll_price", new_price, "", toll_price)
        /\ UNCHANGED <<roads, vehicles, current_time, revenue, traffic_data,
                       road, pstate, dashVars, config, q_table>>

\* lastOp.arg counts the consecutive resets (1 or 2), lastOp.before is the
\* number of calls the first of them wiped
ResetCall ==
    IF lastOp.name = "reset_simulation"
    THEN Call("reset_simulation", 2, "", lastOp.before)
    ELSE Call("reset_simulation", 1, "", calls)

reset_simulation_keeps_revenue ==
    \E now \in WallClockTimes :
        /\ roads' = [r \in RoadNames |-> 0]
        /\ vehicles' = <<>>
        /\ current_time' = now
        /\ toll_price' = TOLL_CONFIG.base_price
        /\ traffic_data' = <<>>
        /\ calls' = 0
        /\ ret' = Returned(None)
        /\ lastOp' = ResetCall
        /\ UNCHANGED <<revenue, road, pstate, dashVars, config, q_table>>

reset_simulation ==
    \E now \in WallClockTimes :
        /\ roads' = [r \in RoadNames |-> 0]
        /\ vehicles' = <<>>
        /\ current_time' = now
        /\ toll_price' = TOLL_CONFIG.base_price
        /\ revenue' = <<>>
        /\ traffic_data' = <<>>
        /\ calls' = 0
        /\ ret' = Returned(None)
        /\ lastOp' = ResetCall
        /\ UNCHANGED <<road, pstate, dashVars, config, q_table>>

\* datetime.weekday() of a clock that started on a Monday
Weekday(t) == (t \div (24 * 60)) % 7

\* the dict TrafficSimulator.get_current_state() builds
current_state ==
    [tunnel_congestion |-> get_congestion_level("tai_lam_tunnel", roads["tai_lam_tunnel"]),
     tmr_congestion |-> get_congestion_level("tuen_mun_road", roads["tuen_mun_road"]),
     nt_congestion |-> get_congestion_level("nt_circular_road", roads["nt_circular_road"]),
     current_toll |-> toll_price,
     hourly_revenue |-> revenue,
     time_of_day |-> Hour(current_time),
     day_of_week |-> Weekday(current_time)]

get_current_state_advances_clock ==
    /\ calls < MaxCalls
    /\ ret' = Returned(current_state)
    /\ current_time' = current_time + 1
    /\ calls' = calls + 1
    /\ lastOp' = Call("get_current_state", 0, "", 0)
    /\ UNCHANGED <<roads, vehicles, toll_price, revenue,
                   traffic_data, road, pstate, dashVars, config, q_table>>

get_current_state ==
    /\ calls < MaxCalls
    /\ ret' = Returned(current_state)
    /\ calls' = calls + 1
    /\ lastOp' = Call("get_current_state", 0, "", 0)
    /\ UNCHANGED <<roads, vehicles, current_time, toll_price, revenue,
                   traffic_data, road, pstate, dashVars, config, q_table>>

Next ==
    \/ simulate_step
    \/ update_toll_price
    \/ get_current_state
    \/ reset_simulation

Spec == Init /\ [][Next]_vars

\* C1: after any sequence of simulate_step, update_toll_price (whatever the
\* proposed value) and reset_simulation calls, the toll price lies within
\* [min_price, max_price].
Thm_C1_TollWithinBounds ==
    /\ TOLL_CONFIG.min_price <= toll_price
    /\ toll_price <= TOLL_CONFIG.max_price

Wit_C1_AbsoluteClampBinds ==
    /\ lastOp.name = "update_toll_price"
    /\ lastOp.arg < TOLL_CONFIG.min_price
    /\ lastOp.before - (lastOp.before * TOLL_CONFIG.max_change_percent) \div 100
          < TOLL_CONFIG.min_price
    /\ toll_price = TOLL_CONFIG.min_price

\* C2: one update_toll_price call never changes the toll price by more than
\* max_change_percent times the price held before the call.
Thm_C2_ChangeWithinRateLimit ==
    lastOp.name = "update_toll_price"
        => Abs(toll_price - lastOp.before) * 100
              <= lastOp.before * TOLL_CONFIG.max_change_percent

Wit_C2_RateLimitBinds ==
    /\ lastOp.name = "update_toll_price"
    /\ lastOp.arg = 100 * Scale
    /\ lastOp.before # TOLL_CONFIG.base_price
    /\ (toll_price - lastOp.before) * 100
          = lastOp.before * TOLL_CONFIG.max_change_percent

\* the engine right after construction or reset, one update_toll_price(100)
AfterResetUpdate100 ==
    /\ lastOp.name = "update_toll_price"
    /\ lastOp.arg = 100 * Scale
    /\ calls = 1

Thm_C7_ResetWipesEngine ==
    lastOp.name = "reset_simulation"
        => /\ \A r \in RoadNames : roads[r] = 0
           /\ vehicles = <<>>
           /\ toll_price = TOLL_CONFIG.base_price
           /\ revenue = <<>>
           /\ traffic_data = <<>>

Wit_C7_SecondResetAfterHistory ==
    /\ lastOp.name = "reset_simulation"
    /\ lastOp.arg = 2
    /\ lastOp.before = MaxCalls

\* C15: between two resets, cumulative revenue never decreases across any
\* sequence of simulate_step, get_current_state and update_toll_price
\* calls.
Thm_C15_RevenueNeverDecreases ==
    [][lastOp'.name \in {"simulate_step", "get_current_state", "update_toll_price"}
          => BigLeq(revenue, revenue')]_vars

Wit_C15_RevenueGrewTwice ==
    /\ lastOp.name = "simulate_step"
    /\ Len(traffic_data) >= 2
    /\ traffic_data[1].revenue # <<>>
    /\ BigLess(traffic_data[1].revenue, revenue)

\* the engine state the frame conditions speak of
simulationState == <<roads, vehicles, revenue, current_time, traffic_data>>

\* C17: of the four engine commands only simulate_step and
\* reset_simulation change road occupancy, the active vehicles, revenue,
\* the clock or the snapshot history: update_toll_price changes the toll
\* price and nothing else, get_current_state changes nothing at all.
Thm_C17_OnlyTickAndResetChangeTheSimulation ==
    [][/\ simulationState' # simulationState
            => lastOp'.name \in {"simulate_step", "reset_simulation"}
       /\ lastOp'.name = "update_toll_price"
            => UNCHANGED simulationState
       /\ lastOp'.name = "get_current_state"
            => UNCHANGED <<simulationState, toll_price>>]_vars

Wit_C17_StateReadAfterTickAndUpdate ==
    /\ lastOp.name = "get_current_state"
    /\ vehicles # <<>>
    /\ traffic_data # <<>>
    /\ toll_price # TOLL_CONFIG.base_price
    /\ ret.value.current_toll = toll_price

\* C18: a snapshot emitted by a tick is never changed afterwards by a
\* later simulate_step, update_toll_price or get_current_state call, and
\* between resets the history only grows by appending.
Thm_C18_HistoryIsAppendOnly ==
    [][lastOp'.name \in {"simulate_step", "get_current_state", "update_toll_price"}
          => /\ Len(traffic_data') >= Len(traffic_data)
             /\ SubSeq(traffic_data', 1, Len(traffic_data)) = traffic_data
             /\ lastOp'.name = "simulate_step"
                   => Len(traffic_data') = Len(traffic_data) + 1]_vars

Wit_C18_OldSnapshotKeepsItsToll ==
    /\ lastOp.name = "simulate_step"
    /\ Len(traffic_data) = 2
    /\ traffic_data[1].toll_price = TOLL_CONFIG.base_price
    /\ traffic_data[2].toll_price # TOLL_CONFIG.base_price
    /\ traffic_data[1].timestamp + 1 = traffic_data[2].timestamp

(***************************************************************************)
(* ConfigSpec: the engine constructed and ticked on a drawn config.py.     *)
(***************************************************************************)
\* configurations of config.py: the one written, a tunnel of capacity 0,
\* min_price above max_price, and a base price below and above the bounds
Configs ==
    {ModuleConfig,
     [ModuleConfig EXCEPT !.roads["tai_lam_tunnel"].capacity = 0],
     [ModuleConfig EXCEPT !.toll.min_price = TOLL_CONFIG.max_price,
                          !.toll.max_price = TOLL_CONFIG.min_price],
     [ModuleConfig EXCEPT !.toll.base_price = 10 * Scale],
     [ModuleConfig EXCEPT !.toll.base_price = 60 * Scale]}

\* no engine object exists yet
ConfigInit ==
    /\ config \in Configs
    /\ q_table = None
    /\ roads = None
    /\ vehicles = <<>>
    /\ current_time = 0
    /\ toll_price = 0
    /\ revenue = <<>>
    /\ traffic_data = <<>>
    /\ calls = 0
    /\ road = None
    /\ pstate = None
    /\ ret = Returned(None)
    /\ lastOp = NoCall
    /\ DashGlobalsInit

\* TrafficSimulator() on the drawn configuration
Config_init ==
    \E now \in WallClockTimes :
        /\ roads = None
        /\ roads' = [r \in DOMAIN config.roads |-> 0]
        /\ vehicles' = <<>>
        /\ current_time' = now
        /\ toll_price' = config.toll.base_price
        /\ revenue' = <<>>
        /\ traffic_data' = <<>>
        /\ calls' = 0
        /\ ret' = Returned(None)
        /\ lastOp' = Call("__init__", 0, "", 0)
        /\ UNCHANGED <<road, pstate, dashVars, config, q_table>>

\* simulate_step up to the removal of the completed vehicles, on the
\* engine as it stands and for the routes the logit draws select
StepVehicles(scenario, chosen) ==
    LET w == SCENARIOS[scenario].weather_factor
        gen == GenerateVehicles(
                   [roads |-> roads, revenue |-> revenue, vehicles |-> vehicles],
                   chosen, 1, current_time, toll_price)
        done == CompleteVehicles(gen.roads, gen.vehicles, 1, {}, current_time, w)
    IN  [roads |-> done.roads, revenue |-> gen.revenue,
         vehicles |-> PopCompleted(gen.vehicles, done.completed, 1)]

\* simulate_step on the constructed engine: with a road of capacity 0 the
\* first occupancy/capacity division (route_choice_model for a new
\* vehicle, the snapshot otherwise) raises before anything is assigned
Config_simulate_step ==
    \E scenario \in ScenarioInputs, new_vehicles \in 0..MaxNew :
      \E chosen \in RouteChoices(new_vehicles) :
        /\ roads # None
        /\ calls < MaxCalls
        /\ Len(vehicles) + new_vehicles <= MaxActive
        /\ IF \E r \in DOMAIN config.roads : config.roads[r].capacity = 0
           THEN /\ ret' = Raised("ZeroDivisionError")
                /\ UNCHANGED <<roads, revenue, vehicles, traffic_data, current_time>>
           ELSE LET step == StepVehicles(scenario, chosen)
                    traffic_snapshot ==
                        Snapshot(current_time, scenario, toll_price,
                                 step.revenue, step.roads)
                IN  /\ config.roads = ROADS
                    /\ roads' = step.roads
                    /\ revenue' = step.revenue
                    /\ vehicles' = step.vehicles
                    /\ traffic_data' = Append(traffic_data, traffic_snapshot)
                    /\ current_time' = current_time + 1
                    /\ ret' = Returned(traffic_snapshot)
        /\ calls' = calls + 1
        /\ lastOp' = Call("simulate_step", new_vehicles, scenario, Len(vehicles))
        /\ UNCHANGED <<toll_price, road, pstate, dashVars, config, q_table>>

ConfigNext ==
    \/ Config_init
    \/ Config_simulate_step

ConfigSpec == ConfigInit /\ [][ConfigNext]_vars

\* what the specification calls a valid configuration
ValidConfig ==
    /\ \A r \in DOMAIN config.roads : config.roads[r].capacity > 0
    /\ config.toll.min_price <= config.toll.max_price
    /\ config.toll.min_price <= config.toll.base_price
    /\ config.toll.base_price <= config.toll.max_price

\* C16: constructing the engine with an invalid configuration (a road of
\* capacity 0, min_price > max_price, a base price outside the bounds)
\* fails at construction with an error; no tick ever runs against such a
\* configuration.
Cex_C16_InvalidConfigFailsAtConstruction ==
    /\ (lastOp.name = "__init__" /\ ~ValidConfig) => ret.raised
    /\ lastOp.name = "simulate_step" => ValidConfig

(***************************************************************************)
(* TripSpec: the engine followed long enough for vehicles to complete      *)
(* their trips, and ticked under scenario names config.py does not know.   *)
(***************************************************************************)
MaxTripCalls == 6        \* engine calls followed within one run of trips
MaxTripDemandTicks == 2  \* first ticks of such a run in which vehicles arrive

\* a scenario name that is no key of SCENARIOS
UnknownScenario == "typhoon"

TripScenarios == ScenarioInputs \cup {UnknownScenario}

engine_at_KeyError_lenient_route_choice(chosen) ==
    GenerateVehicles([roads |-> roads, revenue |-> revenue, vehicles |-> vehicles],
                     chosen, 1, current_time, toll_price)

\* the engine's [roads, revenue, vehicles] when SCENARIOS[scenario] raises
\* KeyError: route_choice_model looks the scenario up for the first new
\* vehicle before anything is added; without new vehicles the removal loop
\* looks it up before its test, and with no vehicle at all the snapshot does
engine_at_KeyError(chosen) ==
    [roads |-> roads, revenue |-> revenue, vehicles |-> vehicles]

\* simulate_step(scenario); generate_demand falls back to "normal" for an
\* unknown scenario and so never raises
Trip_simulate_step(scenarios, max_calls) ==
    \E scenario \in scenarios,
       new_vehicles \in 0..(IF Len(traffic_data) < MaxTripDemandTicks
                            THEN MaxNew ELSE 0) :
      \E chosen \in RouteChoices(new_vehicles) :
        /\ calls < max_calls
        /\ Len(vehicles) + new_vehicles <= MaxActive
        /\ IF scenario \notin DOMAIN SCENARIOS
           THEN LET engine == engine_at_KeyError(chosen)
                IN  /\ roads' = engine.roads
                    /\ revenue' = engine.revenue
                    /\ vehicles' = engine.vehicles
                    /\ ret' = Raised("KeyError")
                    /\ UNCHANGED <<traffic_data, current_time>>
           ELSE LET step == StepVehicles(scenario, chosen)
                    traffic_snapshot ==
                        Snapshot(current_time, scenario, toll_price,
                                 step.revenue, step.roads)
                IN  /\ roads' = step.roads
                    /\ revenue' = step.revenue
                    /\ vehicles' = step.vehicles
                    /\ traffic_data' = Append(traffic_data, traffic_snapshot)
                    /\ current_time' = current_time + 1
                    /\ ret' = Returned(traffic_snapshot)
        /\ calls' = calls + 1
        /\ lastOp' = Call("simulate_step", new_vehicles, scenario, Len(vehicles))
        /\ UNCHANGED <<toll_price, road, pstate, dashVars, config, q_table>>

TripNext == Trip_simulate_step(ScenarioInputs, MaxTripCalls)

\* the engine ticked on, under changing weather
TripSpec == Init /\ [][TripNext]_vars

FleetNext ==
    \/ Trip_simulate_step({"normal"}, MaxTripCalls)
    \/ update_toll_price
    \/ reset_simulation

\* the engine ticked in fair weather, repriced and reset in any order
FleetSpec == Init /\ [][FleetNext]_vars

ScenarioNext ==
    \/ Trip_simulate_step(TripScenarios, MaxCalls)
    \/ update_toll_price
    \/ reset_simulation

\* the engine ticked under known and unknown scenario names
ScenarioSpec == Init /\ [][ScenarioNext]_vars

\* a step that is a simulate_step call which returned
TickReturned == lastOp'.name = "simulate_step" /\ ~ret'.raised

\* the vehicles a tick recorded: those that departed at its clock
TickNewVehicles ==
    SelectSeq(vehicles', LAMBDA v : v.departure_time = current_time)

\* how many vehicles of the sequence vs are routed to road r
OnRoad(vs, r) == Cardinality({i \in 1..Len(vs) : vs[i].route = r})

\* C21: in the removal step of a tick an active vehicle is removed, and its
\* road's occupancy decremented by one, exactly when the time elapsed since
\* its departure is at least its route's travel time computed at the moment
\* of the check, from the road's occupancy at that moment and the running
\* scenario's weather factor; every other active vehicle stays.
Thm_C21_RemovedWhenElapsedCoversCurrentTravelTime ==
    [][TickReturned =>
          LET w == SCENARIOS[lastOp'.scenario].weather_factor
              new == TickNewVehicles
              all == vehicles \o new
              removed(i) ==
                  \A j \in 1..Len(vehicles') : vehicles'[j].id # all[i].id
              occupancy(i) ==
                  roads[all[i].route] + OnRoad(new, all[i].route)
                    - Cardinality({j \in 1..(i - 1) :
                                     all[j].route = all[i].route /\ removed(j)})
          IN  /\ Len(new) = lastOp'.arg
              /\ \A i \in 1..Len(all) :
                    removed(i) <=>
                        BigLeq(travel_time_of(all[i].route, occupancy(i), w),
                               BigMulSmall(TravelTimeDen[all[i].route],
                                           current_time - all[i].departure_time))
              /\ \A j \in 1..Len(vehicles') :
                    \E i \in 1..Len(all) : all[i] = vehicles'[j]
              /\ \A r \in RoadNames :
                    roads'[r] = roads[r] + OnRoad(new, r)
                                  - Cardinality({i \in 1..Len(all) :
                                                   all[i].route = r /\ removed(i)})]_vars

\* a tunnel vehicle that departed in a rainstorm (travel time 7.2 minutes)
\* is removed five minutes later in fair weather while another vehicle stays
Wit_C21_RemovedUnderFairWeatherAfterRainyDeparture ==
    /\ lastOp.name = "simulate_step"
    /\ Len(traffic_data) = 6
    /\ traffic_data[1].scenario = "rainstorm"
    /\ traffic_data[1].roads["tai_lam_tunnel"].vehicles = 1
    /\ traffic_data[5].roads["tai_lam_tunnel"].vehicles = 1
    /\ traffic_data[6].scenario = "normal"
    /\ roads["tai_lam_tunnel"] = 0
    /\ Len(vehicles) = 1

\* C22: in a tick every newly generated vehicle increments the occupancy of
\* exactly its chosen road by one and is recorded in the active set with the
\* current clock as departure time; revenue grows by exactly the toll price
\* for each new vehicle routed to the tunnel and by nothing for the others.
Thm_C22_NewVehiclesCountedRecordedAndCharged ==
    [][TickReturned =>
          LET new == TickNewVehicles
              n == Len(new)
              left(r) == Cardinality({i \in 1..Len(vehicles) :
                            /\ vehicles[i].route = r
                            /\ \A j \in 1..Len(vehicles') : vehicles'[j] # vehicles[i]})
          IN  /\ n = lastOp'.arg
              /\ \A j \in 1..n : vehicles'[Len(vehicles') - n + j] = new[j]
              /\ \A r \in RoadNames : roads'[r] + left(r) = roads[r] + OnRoad(new, r)
              /\ revenue' = BigAdd(revenue,
                                   BigMulSmall(BigFromNat(toll_price),
                                               OnRoad(new, "tai_lam_tunnel")))]_vars

\* a first tick sent a vehicle into the tunnel, the next one a vehicle onto
\* Tuen Mun Road: revenue is one toll
Wit_C22_TunnelVehicleThenFreeRoadVehicle ==
    /\ lastOp.name = "simulate_step"
    /\ lastOp.arg = 1
    /\ Len(vehicles) = 2
    /\ vehicles[1].route = "tai_lam_tunnel"
    /\ vehicles[2].route = "tuen_mun_road"
    /\ vehicles[2].departure_time = current_time - 1
    /\ roads["tuen_mun_road"] = 1
    /\ revenue = BigFromNat(toll_price)

\* C23: every simulate_step call emits exactly one snapshot and then
\* advances the clock by one minute; the snapshot carries the clock before
\* the advance and the toll, revenue and occupancies as they stand after the
\* tick's entries and removals; successive snapshots of a run are one minute
\* apart.
Thm_C23_OneSnapshotPerTickThenOneMinute ==
    [][TickReturned =>
          /\ Len(traffic_data') = Len(traffic_data) + 1
          /\ SubSeq(traffic_data', 1, Len(traffic_data)) = traffic_data
          /\ LET traffic_snapshot == traffic_data'[Len(traffic_data')]
             IN  /\ traffic_snapshot.timestamp = current_time
                 /\ traffic_snapshot.scenario = lastOp'.scenario
                 /\ traffic_snapshot.toll_price = toll_price'
                 /\ traffic_snapshot.revenue = revenue'
                 /\ \A r \in RoadNames :
                       traffic_snapshot.roads[r].vehicles = roads'[r]
                 /\ ret'.value = traffic_snapshot
          /\ current_time' = current_time + 1
          /\ \A i \in 1..Len(traffic_data) :
                traffic_data'[i + 1].timestamp = traffic_data'[i].timestamp + 1]_vars

Wit_C23_ThirdSnapshotAfterTunnelEntry ==
    /\ lastOp.name = "simulate_step"
    /\ Len(traffic_data) = 3
    /\ traffic_data[3].roads["tai_lam_tunnel"].vehicles = 1
    /\ traffic_data[3].revenue # <<>>
    /\ ret.value = traffic_data[3]
    /\ current_time = traffic_data[3].timestamp + 1

\* C26: after any sequence of simulate_step, update_toll_price and
\* reset_simulation calls made one after another, each road's occupancy
\* equals the number of active vehicles whose route is that road.
Thm_C26_OccupancyCountsActiveVehicles ==
    \A r \in RoadNames : roads[r] = OnRoad(vehicles, r)

\* the tunnel vehicle of the fifth snapshot has completed its trip in the
\* sixth tick and a vehicle on another road is still under way
Wit_C26_TunnelTripCompletedOtherVehicleUnderWay ==
    /\ lastOp.name = "simulate_step"
    /\ Len(traffic_data) = 6
    /\ traffic_data[5].roads["tai_lam_tunnel"].vehicles = 1
    /\ traffic_data[6].roads["tai_lam_tunnel"].vehicles = 0
    /\ vehicles # <<>>
    /\ \A i \in 1..Len(vehicles) : vehicles[i].route # "tai_lam_tunnel"

\* C27: simulate_step called with a scenario name that is not in the
\* scenario table fails with an error and leaves road occupancy, active
\* vehicles, revenue, toll price, clock and history as they were, whatever
\* the number of vehicles drawn and whether or not vehicles are active.
Thm_C27_UnknownScenarioFailsWithoutEffect ==
    [][(lastOp'.name = "simulate_step" /\ lastOp'.scenario \notin DOMAIN SCENARIOS)
          => /\ ret'.raised
             /\ UNCHANGED <<roads, vehicles, revenue, toll_price,
                            current_time, traffic_data>>]_vars

Wit_C27_UnknownScenarioWithVehicleDrawnAndVehiclesActive ==
    /\ lastOp.name = "simulate_step"
    /\ lastOp.scenario = UnknownScenario
    /\ lastOp.arg = 1
    /\ ret.raised
    /\ vehicles # <<>>
    /\ traffic_data # <<>>

(***************************************************************************)
(* ConvergeSpec: update_toll_price called again and again with the value   *)
(* of the last call, from the prices a few free calls lead to.             *)
(***************************************************************************)
\* update_toll_price(new_price) with the new_price of the call before; the
\* free calls are the ones counted
Repeat_update_toll_price ==
    /\ lastOp.name = "update_toll_price"
    /\ toll_price' = new_toll_price(toll_price, lastOp.arg)
    /\ ret' = Returned(None)
    /\ lastOp' = Call("update_toll_price", lastOp.arg, "", toll_price)
    /\ UNCHANGED <<roads, vehicles, current_time, revenue, traffic_data, calls,
                   road, pstate, dashVars, config, q_table>>

ConvergeNext ==
    \/ update_toll_price
    \/ Repeat_update_toll_price

\* a caller that repeats its proposal keeps calling while the call still
\* changes something
ConvergeSpec ==
    Init /\ [][ConvergeNext]_vars /\ WF_vars(Repeat_update_toll_price)

\* C28: from any toll price within [min_price, max_price], repeatedly
\* calling update_toll_price with the same proposed value p reaches, after
\* finitely many calls, the price clamp(p, min_price, max_price), and every
\* further call with p leaves the price there.
Thm_C28_RepeatedProposalIsReachedAndKept ==
    \A p \in Proposals :
        <>[](lastOp.name = "update_toll_price" /\ lastOp.arg = p)
            => <>[](toll_price = Max(TOLL_CONFIG.min_price,
                                     Min(TOLL_CONFIG.max_price, p)))

\* the proposal 33 has been reached from a price more than one step below
\* it, and a further call with 33 has left the price there
Wit_C28_ThirtyThreeReachedFromBelowAndKept ==
    /\ lastOp.name = "update_toll_price"
    /\ lastOp.arg = 33 * Scale
    /\ lastOp.before = 33 * Scale
    /\ toll_price = 33 * Scale
    /\ calls = MaxCalls

(***************************************************************************)
(* Rule-based pricing: SimplePricingModel (simulator/simple_pricing_model  *)
(* .py, duplicated in simulator/ml_pricing_model.py) and the fallback      *)
(* calculate_rule_based_toll of aws_lambda/lambda_function.py.             *)
(* A multiplier is given in tenths, their product in thousandths.          *)
(***************************************************************************)
\* x HKD as a Big number of money units
BigMoney(x) == BigMulSmall(BigMulSmall(BigFromNat(x), 100), Pow(5, MaxCalls))

\* REVENUE_TARGET_HOURLY in HKD
REVENUE_TARGET_HOURLY == 50000

\* c > t/10 and c < t/10 for a congestion level c = <<num, den>>
CongestionAbove(c, t) == c[1] * 10 > t * c[2]

CongestionBelow(c, t) == c[1] * 10 < t * c[2]

congestion_multiplier_inclusive(tunnel_congestion) ==
    IF ~CongestionBelow(tunnel_congestion, 8) THEN 15
    ELSE IF CongestionBelow(tunnel_congestion, 3) THEN 8
    ELSE 10

\* "Base adjustment based on congestion"
congestion_multiplier(tunnel_congestion) ==
    IF CongestionAbove(tunnel_congestion, 8) THEN 15
    ELSE IF CongestionBelow(tunnel_congestion, 3) THEN 8
    ELSE 10

\* "Revenue adjustment": revenue_ratio = hourly_revenue / REVENUE_TARGET_HOURLY
revenue_multiplier(hourly_revenue) ==
    IF BigLess(BigMulSmall(hourly_revenue, 10), BigMoney(7 * REVENUE_TARGET_HOURLY))
    THEN 12
    ELSE IF BigLess(BigMoney(13 * REVENUE_TARGET_HOURLY), BigMulSmall(hourly_revenue, 10))
    THEN 9
    ELSE 10

\* "Time-of-day adjustment"
time_multiplier(hour) ==
    IF (7 <= hour /\ hour <= 9) \/ (17 <= hour /\ hour <= 19) THEN 13
    ELSE IF 22 <= hour /\ hour <= 6 THEN 7
    ELSE 10

price_multiplier_additive(state) ==
    (congestion_multiplier(state.tunnel_congestion)
     + revenue_multiplier(state.hourly_revenue)
     + time_multiplier(state.time_of_day) - 20) * 100

\* price_multiplier of get_price_recommendation, in thousandths
price_multiplier(state) ==
    congestion_multiplier(state.tunnel_congestion)
        * revenue_multiplier(state.hourly_revenue)
        * time_multiplier(state.time_of_day)

\* SimplePricingModel.get_price_recommendation(state)
get_price_recommendation(state) ==
    LET new_price == (TOLL_CONFIG.base_price \div 1000) * price_multiplier(state)
    IN  Max(TOLL_CONFIG.min_price, Min(TOLL_CONFIG.max_price, new_price))

\* calculate_rule_based_toll(traffic_data) of the Lambda, called when the
\* wall-clock hour is current_hour
calculate_rule_based_toll(congestion_factor_in, current_hour) ==
    LET base_toll == 30 * Scale
        tier == IF CongestionAbove(congestion_factor_in, 8) THEN 15
                ELSE IF CongestionAbove(congestion_factor_in, 5) THEN 12
                ELSE 9
        toll_multiplier ==
            IF (7 <= current_hour /\ current_hour <= 9)
                  \/ (17 <= current_hour /\ current_hour <= 19)
            THEN tier * 13 ELSE tier * 10
        calculated_toll == (base_toll \div 100) * toll_multiplier
    IN  Max(18 * Scale, Min(55 * Scale, calculated_toll))

(***************************************************************************)
(* TrainedPricingModel (simulator/trained_pricing_model.py) and            *)
(* HybridPricingModel with its TollPricingAgent (simulator/                *)
(* ml_pricing_model.py).                                                   *)
(***************************************************************************)
is_peak_hour(hour) == (7 <= hour /\ hour <= 9) \/ (17 <= hour /\ hour <= 19)

\* "Base price adjustment" of _fallback_pricing, in tenths
fallback_congestion_multiplier(tunnel_congestion) ==
    IF CongestionAbove(tunnel_congestion, 8) THEN 16
    ELSE IF CongestionAbove(tunnel_congestion, 6) THEN 13
    ELSE IF CongestionBelow(tunnel_congestion, 3) THEN 8
    ELSE 10

\* "Peak hour adjustment" of _fallback_pricing, in tenths
fallback_time_multiplier(hour) ==
    IF is_peak_hour(hour) THEN 14
    ELSE IF 22 <= hour /\ hour <= 6 THEN 7
    ELSE 10

\* TrainedPricingModel._fallback_pricing(state)
fallback_pricing(state) ==
    LET multiplier == fallback_congestion_multiplier(state.tunnel_congestion)
                          * fallback_time_multiplier(state.time_of_day)
                          * revenue_multiplier(state.hourly_revenue)
        new_price == (TOLL_CONFIG.base_price \div 1000) * multiplier
    IN  Max(TOLL_CONFIG.min_price, Min(TOLL_CONFIG.max_price, new_price))

\* the ml_model a TrainedPricingModel holds after load_trained_model: None
\* (no file, missing dependency, load error), or a TollPricingMLModel that
\* is trained or not and whose predict_toll raises or returns a price
NoModel == [loaded |-> FALSE, is_trained |-> FALSE, raises |-> FALSE,
            predicted_toll |-> 0]

PredictedTolls == {10 * Scale, 44 * Scale}

MlModels ==
    {NoModel,
     [loaded |-> TRUE, is_trained |-> FALSE, raises |-> FALSE, predicted_toll |-> 0],
     [loaded |-> TRUE, is_trained |-> TRUE, raises |-> TRUE, predicted_toll |-> 0]}
    \cup [loaded : {TRUE}, is_trained : {TRUE}, raises : {FALSE},
          predicted_toll : PredictedTolls]

\* the trained strategy takes its rule path for this ml_model
FallsBack(ml_model) ==
    ~ml_model.loaded \/ ~ml_model.is_trained \/ ml_model.raises

\* TrainedPricingModel.get_price_recommendation(state) holding ml_model
trained_get_price_recommendation(state, ml_model) ==
    IF ml_model.loaded /\ ml_model.is_trained
    THEN IF ml_model.raises
         THEN Returned(fallback_pricing(state))
         ELSE Returned(Max(TOLL_CONFIG.min_price,
                           Min(TOLL_CONFIG.max_price, ml_model.predicted_toll)))
    ELSE Returned(fallback_pricing(state))

\* SimplePricingModel.calculate_price(state) of ml_pricing_model.py
calculate_price(state) ==
    LET multiplier == congestion_multiplier(state.tunnel_congestion)
                          * revenue_multiplier(state.hourly_revenue)
                          * time_multiplier(state.time_of_day)
        new_price == (TOLL_CONFIG.base_price \div 1000) * multiplier
    IN  Max(TOLL_CONFIG.min_price, Min(TOLL_CONFIG.max_price, new_price))

\* TollPricingAgent.action_size: 21 discrete toll levels
action_size == 21

\* TollPricingAgent._action_to_price(action)
action_to_price(action) ==
    TOLL_CONFIG.min_price
        + (action * (TOLL_CONFIG.max_price - TOLL_CONFIG.min_price))
              \div (action_size - 1)

\* a HybridPricingModel as train_step leaves it: use_ml is set once more
\* than 100 samples are held, and the list never shrinks
HybridModels ==
    {[use_ml |-> FALSE, training_data |-> 0],
     [use_ml |-> FALSE, training_data |-> 100],
     [use_ml |-> TRUE, training_data |-> 101]}

\* what TollPricingAgent.act(state) does: it raises (the network's predict
\* fails) or picks an action, by exploration or by argmax
AgentActs ==
    {[raises |-> TRUE, action |-> 0]}
    \cup [raises : {FALSE}, action : {0, action_size - 1}]

\* HybridPricingModel.get_price_recommendation(state)
hybrid_get_price_recommendation(state, model, act) ==
    IF model.use_ml /\ model.training_data > 100
    THEN IF act.raises THEN Raised("Exception")
         ELSE Returned(action_to_price(act.action))
    ELSE Returned(calculate_price(state))


(***************************************************************************)
(* PricingSpec: the pricing functions applied to drawn state dicts.        *)
(***************************************************************************)
\* tunnel congestion levels, in hundredths, around every threshold
CongestionInputs ==
    {<<p, 100>> : p \in {0, 20, 29, 30, 31, 50, 51, 60, 80, 81, 90, 100}}

\* hourly revenues in HKD: ratios 0, 0.5, 0.7, 1, 1.3 and 1.4 of the target
RevenueInputs == {0, 25000, 35000, 50000, 65000, 70000}

PricingInit ==
    /\ EngineInit(0)
    /\ road = None
    /\ pstate \in [tunnel_congestion : CongestionInputs,
                   hourly_revenue : {BigMoney(x) : x \in RevenueInputs},
                   time_of_day : 0..23]
    /\ ret = Returned(None)
    /\ lastOp = NoCall
    /\ DashGlobalsInit
    /\ config = ModuleConfig
    /\ q_table = None

Pricing_get_price_recommendation ==
    /\ ret' = Returned(get_price_recommendation(pstate))
    /\ lastOp' = Call("get_price_recommendation", 0, "", 0)
    /\ UNCHANGED <<engineVars, road, pstate, dashVars, config, q_table>>

\* the Lambda reads the congestion from its traffic_data and the hour from
\* datetime.now(); both are taken from the drawn state
Pricing_calculate_rule_based_toll ==
    /\ ret' = Returned(calculate_rule_based_toll(pstate.tunnel_congestion,
                                                 pstate.time_of_day))
    /\ lastOp' = Call("calculate_rule_based_toll", 0, "", 0)
    /\ UNCHANGED <<engineVars, road, pstate, dashVars, config, q_table>>

\* lastOp.arg is the ml_model the strategy holds
Pricing_trained_get_price_recommendation ==
    \E ml_model \in MlModels :
        /\ ret' = trained_get_price_recommendation(pstate, ml_model)
        /\ lastOp' = Call("TrainedPricingModel.get_price_recommendation",
                          ml_model, "", 0)
        /\ UNCHANGED <<engineVars, road, pstate, dashVars, config, q_table>>

\* lastOp.arg is the strategy object, lastOp.before what its agent does
Pricing_hybrid_get_price_recommendation ==
    \E model \in HybridModels, act \in AgentActs :
        /\ ret' = hybrid_get_price_recommendation(pstate, model, act)
        /\ lastOp' = Call("HybridPricingModel.get_price_recommendation",
                          model, "", act)
        /\ UNCHANGED <<engineVars, road, pstate, dashVars, config, q_table>>

PricingNext ==
    \/ Pricing_get_price_recommendation
    \/ Pricing_calculate_rule_based_toll
    \/ Pricing_trained_get_price_recommendation
    \/ Pricing_hybrid_get_price_recommendation

PricingSpec == PricingInit /\ [][PricingNext]_vars

\* the drawn state leaves the revenue and time-of-day multipliers at 1
NeutralRevenue ==
    /\ BigLeq(BigMoney(35000), pstate.hourly_revenue)
    /\ BigLeq(pstate.hourly_revenue, BigMoney(65000))

NeutralHour == pstate.time_of_day \in (10..16) \cup {20, 21}

NeutralCongestion ==
    /\ ~CongestionBelow(pstate.tunnel_congestion, 3)
    /\ ~CongestionAbove(pstate.tunnel_congestion, 8)

Recommended == lastOp.name = "get_price_recommendation"

\* C8: with tunnel congestion 0.9, hour 8 and revenue ratio 0.5 the
\* rule-based controller returns base_price * 1.5 * 1.2 * 1.3 clamped to
\* [min_price, max_price]; the multipliers compound multiplicatively
\* (1.5 * 1.2 of the base at a neutral hour, 1.2 * 1.3 at a neutral
\* congestion) and the result is always within the toll bounds.
Thm_C8_MultipliersCompound ==
    Recommended =>
        /\ TOLL_CONFIG.min_price <= ret.value
        /\ ret.value <= TOLL_CONFIG.max_price
        /\ (/\ pstate.tunnel_congestion = <<90, 100>>
            /\ pstate.hourly_revenue = BigMoney(25000)
            /\ pstate.time_of_day = 8)
              => /\ price_multiplier(pstate) = 15 * 12 * 13
                 /\ ret.value = Max(TOLL_CONFIG.min_price,
                                    Min(TOLL_CONFIG.max_price,
                                        (TOLL_CONFIG.base_price \div 1000) * 2340))
        /\ (/\ pstate.tunnel_congestion = <<90, 100>>
            /\ pstate.hourly_revenue = BigMoney(25000)
            /\ NeutralHour)
              => ret.value * 100 = TOLL_CONFIG.base_price * 180
        /\ (/\ pstate.tunnel_congestion = <<50, 100>>
            /\ pstate.hourly_revenue = BigMoney(25000)
            /\ pstate.time_of_day = 8)
              => ret.value * 100 = TOLL_CONFIG.base_price * 156

Wit_C8_RushHourHighCongestionLowRevenue ==
    /\ Recommended
    /\ pstate.tunnel_congestion = <<90, 100>>
    /\ pstate.hourly_revenue = BigMoney(25000)
    /\ pstate.time_of_day = 8
    /\ ret.value = TOLL_CONFIG.max_price

\* C9 as stated: the congestion multiplier is 1.5 above 0.8, 1.2 above 0.5
\* (and at most 0.8), and 0.9 otherwise.
Cex_C9_TiersHighMidLow ==
    (Recommended /\ NeutralRevenue /\ NeutralHour)
        => ret.value * 10 = TOLL_CONFIG.base_price *
              (IF CongestionAbove(pstate.tunnel_congestion, 8) THEN 15
               ELSE IF CongestionAbove(pstate.tunnel_congestion, 5) THEN 12
               ELSE 9)

\* C9 amended: the congestion multiplier of the rule-based controller
\* (SimplePricingModel) is 1.5 when tunnel congestion is above 0.8, 0.8
\* when it is below 0.3, and 1.0 otherwise, for every congestion value in
\* [0,1]; the tiers 1.5 / 1.2 (above 0.5) / 0.9 are those of the Lambda
\* fallback calculate_rule_based_toll.
Thm_C9_TiersHighLowElse ==
    /\ (Recommended /\ NeutralRevenue /\ NeutralHour)
          => ret.value * 10 = TOLL_CONFIG.base_price *
                (IF CongestionAbove(pstate.tunnel_congestion, 8) THEN 15
                 ELSE IF CongestionBelow(pstate.tunnel_congestion, 3) THEN 8
                 ELSE 10)
    /\ (lastOp.name = "calculate_rule_based_toll" /\ NeutralHour)
          => ret.value * 10 = TOLL_CONFIG.base_price *
                (IF CongestionAbove(pstate.tunnel_congestion, 8) THEN 15
                 ELSE IF CongestionAbove(pstate.tunnel_congestion, 5) THEN 12
                 ELSE 9)

Wit_C9_MidCongestionUnchangedPrice ==
    /\ Recommended /\ NeutralRevenue /\ NeutralHour
    /\ pstate.tunnel_congestion = <<60, 100>>
    /\ ret.value = TOLL_CONFIG.base_price

\* C10: the time-of-day multiplier is 1.3 for hours 7-9 and 17-19, 0.7 for
\* the night hours 22, 23 and 0-6, and 1 for every other hour; rush-hour
\* and night adjustments never both apply to the same hour.
Cex_C10_NightDiscount ==
    (Recommended /\ NeutralRevenue /\ NeutralCongestion)
        => ret.value * 10 = TOLL_CONFIG.base_price *
              (IF pstate.time_of_day \in (7..9) \cup (17..19) THEN 13
               ELSE IF pstate.time_of_day \in {22, 23} \cup (0..6) THEN 7
               ELSE 10)

(***************************************************************************)
(* The dashboard (dashboard/app.py): the callback update_simulation, which *)
(* serves the Start, Stop and Reset buttons and the refresh interval, and  *)
(* the background threads running run_simulation_background on the shared  *)
(* engine.  A thread is a record: pc (where it stands), scenario (its      *)
(* argument), traffic_snapshot (its local), and the history ticks (the     *)
(* simulate_step calls it made) and adjusted (ticks at its last toll       *)
(* adjustment).  A thread is followed line by line except inside           *)
(* simulate_step, which is followed in two parts: the vehicles (lines      *)
(* 140-171) and the snapshot (lines 173-192); Python may switch threads    *)
(* at any bytecode, so every interleaving followed here is one the         *)
(* program has.  In these runs calls counts the ticks begun and lastOp is  *)
(* the last button command.                                                *)
(***************************************************************************)
MaxThreads == 2       \* threads started by Start commands
MaxDashTicks == 2     \* ticks begun under the dashboard's buttons
MaxDemandTicks == 1   \* first ticks followed in which vehicles arrive
WarmTicks == 990      \* ticks a long-running loop has made when it is met
MaxLoopTicks == 1005  \* ticks of that loop in all
MaxRunTicks == 2      \* ticks of one loop that is started and stopped

\* "if len(simulation_data) % 15 == 0"
AdjustmentPeriod == 15

\* "Keep only last 1000 data points"
MaxDataPoints == 1000

NewThread(scenario) ==
    [pc |-> "while", scenario |-> scenario, traffic_snapshot |-> None,
     ticks |-> 0, adjusted |-> 0]

Alive(t) == threads[t].pc # "exited"

\* the thread is inside simulator.simulate_step
InTick(t) == threads[t].pc = "snapshot"

\* update_simulation triggered by one of triggers; the dcc.Store round
\* trip hands stored_data in and takes the returned list back.  lastOp.arg
\* of a refresh is the timestamp of the newest snapshot of simulation_data
\* the callback finds (0 when there is none)
update_simulation(triggers, max_threads) ==
    \E trigger_id \in triggers :
      \E scenario \in IF trigger_id = "start-btn" THEN ScenarioInputs ELSE {""},
         now \in IF trigger_id = "reset-btn" THEN WallClockTimes ELSE {current_time} :
        LET starts == trigger_id = "start-btn" /\ ~simulation_running
            running == IF starts THEN TRUE
                       ELSE IF trigger_id \in {"stop-btn", "reset-btn"} THEN FALSE
                       ELSE simulation_running
            stored == IF trigger_id = "reset-btn" THEN <<>> ELSE stored_data
        IN  /\ trigger_id = "start-btn" => Len(threads) < max_threads
            /\ simulation_running' = running
            /\ threads' = IF starts THEN Append(threads, NewThread(scenario))
                          ELSE threads
            /\ IF trigger_id = "reset-btn"
               THEN /\ roads' = [r \in RoadNames |-> 0]
                    /\ vehicles' = <<>>
                    /\ current_time' = now
                    /\ toll_price' = TOLL_CONFIG.base_price
                    /\ revenue' = <<>>
                    /\ traffic_data' = <<>>
               ELSE UNCHANGED <<roads, vehicles, current_time, toll_price,
                                revenue, traffic_data>>
            /\ stored_data' = IF running /\ Len(simulation_data) > Len(stored)
                              THEN simulation_data ELSE stored
            /\ lastOp' = Call(trigger_id,
                              IF trigger_id = "interval-component"
                                   /\ simulation_data # <<>>
                              THEN simulation_data[Len(simulation_data)].timestamp
                              ELSE 0,
                              "",
                              Cardinality({t \in 1..Len(threads) : InTick(t)}))
            /\ UNCHANGED <<calls, simulation_data, road, pstate, ret, config, q_table>>

\* "while simulation_running:"
Loop_while(t) ==
    /\ t <= Len(threads) /\ threads[t].pc = "while"
    /\ threads' = [threads EXCEPT ![t].pc =
                      IF simulation_running THEN "simulate_step" ELSE "exited"]
    /\ UNCHANGED <<engineVars, lastOp, road, pstate, ret, simulation_running,
                   simulation_data, stored_data, config, q_table>>

\* simulator.simulate_step(scenario), first part: the new vehicles and the
\* completed ones
Loop_simulate_step(t, first_tick, max_ticks) ==
    \E new_vehicles \in 0..(IF calls < first_tick + MaxDemandTicks THEN MaxNew ELSE 0) :
      \E chosen \in RouteChoices(new_vehicles) :
        /\ t <= Len(threads) /\ threads[t].pc = "simulate_step"
        /\ calls < max_ticks
        /\ Len(vehicles) + new_vehicles <= MaxActive
        /\ LET step == StepVehicles(threads[t].scenario, chosen)
           IN  /\ roads' = step.roads
               /\ revenue' = step.revenue
               /\ vehicles' = step.vehicles
        /\ calls' = calls + 1
        /\ threads' = [threads EXCEPT ![t].pc = "snapshot", ![t].ticks = @ + 1]
        /\ UNCHANGED <<current_time, toll_price, traffic_data, lastOp, road, pstate,
                       ret, simulation_running, simulation_data, stored_data, config, q_table>>

\* simulator.simulate_step(scenario), second part: the snapshot, its
\* append to the history and the clock
Loop_snapshot(t) ==
    LET traffic_snapshot ==
            Snapshot(current_time, threads[t].scenario, toll_price, revenue, roads)
    IN  /\ t <= Len(threads) /\ threads[t].pc = "snapshot"
        /\ traffic_data' = Append(traffic_data, traffic_snapshot)
        /\ current_time' = current_time + 1
        /\ threads' = [threads EXCEPT ![t].pc = "append",
                                      ![t].traffic_snapshot = traffic_snapshot]
        /\ UNCHANGED <<roads, vehicles, toll_price, revenue, calls, lastOp, road,
                       pstate, ret, simulation_running, simulation_data,
                       stored_data, config, q_table>>

\* "simulation_data.append(traffic_snapshot)" and "Update toll price every
\* 15 minutes"; train_step of SimplePricingModel does nothing
Loop_append(t) ==
    LET data == Append(simulation_data, threads[t].traffic_snapshot)
        adjusts == Len(data) % AdjustmentPeriod = 0
    IN  /\ t <= Len(threads) /\ threads[t].pc = "append"
        /\ simulation_data' = data
        /\ toll_price' = IF adjusts
                         THEN new_toll_price(toll_price,
                                             get_price_recommendation(current_state))
                         ELSE toll_price
        /\ threads' = [threads EXCEPT ![t].pc = "stream",
                                      ![t].adjusted =
                                          IF adjusts THEN threads[t].ticks ELSE @]
        /\ UNCHANGED <<roads, vehicles, current_time, revenue, traffic_data, calls,
                       lastOp, road, pstate, ret, simulation_running, stored_data,
                       config, q_table>>

Loop_stream_uncaught(t) ==
    /\ t <= Len(threads) /\ threads[t].pc = "stream"
    /\ \E raises \in BOOLEAN :
          threads' = [threads EXCEPT ![t].pc = IF raises THEN "exited" ELSE "trim"]
    /\ UNCHANGED <<engineVars, lastOp, road, pstate, ret, simulation_running,
                   simulation_data, stored_data, config, q_table>>

\* "try: data_processor.simulate_traffic_stream(traffic_snapshot)": the
\* collaborator returns or raises
Loop_stream(t) ==
    /\ t <= Len(threads) /\ threads[t].pc = "stream"
    /\ \E raises \in BOOLEAN :
          threads' = [threads EXCEPT ![t].pc = IF raises THEN "except" ELSE "trim"]
    /\ UNCHANGED <<engineVars, lastOp, road, pstate, ret, simulation_running,
                   simulation_data, stored_data, config, q_table>>

\* "except Exception as e: print(...)"
Loop_except(t) ==
    /\ t <= Len(threads) /\ threads[t].pc = "except"
    /\ threads' = [threads EXCEPT ![t].pc = "trim"]
    /\ UNCHANGED <<engineVars, lastOp, road, pstate, ret, simulation_running,
                   simulation_data, stored_data, config, q_table>>

\* "Keep only last 1000 data points" and time.sleep(1)
Loop_trim(t) ==
    /\ t <= Len(threads) /\ threads[t].pc = "trim"
    /\ simulation_data' =
          IF Len(simulation_data) > MaxDataPoints
          THEN SubSeq(simulation_data, Len(simulation_data) - MaxDataPoints + 1,
                      Len(simulation_data))
          ELSE simulation_data
    /\ threads' = [threads EXCEPT ![t].pc = "while"]
    /\ UNCHANGED <<engineVars, lastOp, road, pstate, ret, simulation_running,
                   stored_data, config, q_table>>

\* run_simulation_background, one step of thread t
run_simulation_background(t, first_tick, max_ticks) ==
    \/ Loop_while(t)
    \/ Loop_simulate_step(t, first_tick, max_ticks)
    \/ Loop_snapshot(t)
    \/ Loop_append(t)
    \/ Loop_stream(t)
    \/ Loop_except(t)
    \/ Loop_trim(t)

\* the three buttons
Buttons == {"start-btn", "stop-btn", "reset-btn"}

DashNext ==
    \/ update_simulation(Buttons, MaxThreads)
    \/ \E t \in 1..MaxThreads : run_simulation_background(t, 0, MaxDashTicks)

\* the dashboard under any sequence of button commands and refreshes
DashSpec == Init /\ [][DashNext]_vars

\* the loop started at wall-clock time now followed tick by tick from its
\* Start command
ColdLoopNext ==
    \/ update_simulation({"start-btn"}, 1)
    \/ run_simulation_background(1, 0, MaxLoopTicks)

ColdLoopSpec == Init /\ [][ColdLoopNext]_vars

\* the toll price after the adjustments first..last of a loop started at
\* now on roads that stayed empty, price being the toll before them: the
\* state handed to the pricing model at the j-th adjustment is the one
\* get_current_state builds 15 * j ticks after the start
RECURSIVE AdjustQuietly(_, _, _, _)
AdjustQuietly(price, first, last, now) ==
    IF first > last THEN price
    ELSE IF first = last
    THEN LET state == [tunnel_congestion |-> get_congestion_level("tai_lam_tunnel", 0),
                       hourly_revenue |-> <<>>,
                       time_of_day |-> Hour(now + first * AdjustmentPeriod)]
         IN  new_toll_price(price, get_price_recommendation(state))
    ELSE LET middle == (first + last) \div 2
             half == AdjustQuietly(price, first, middle, now)
         IN  IF half \in Nat
             THEN AdjustQuietly(half, middle + 1, last, now)
             ELSE half

\* the toll price after the j-th adjustment of that loop
TollAfterAdjustments(j, now) ==
    AdjustQuietly(TOLL_CONFIG.base_price, 1, j, now)

\* the snapshots of the first k ticks of that loop
QuietHistory(k, now, scenario) ==
    [i \in 1..k |->
        Snapshot(now + i - 1, scenario,
                 TollAfterAdjustments((i - 1) \div AdjustmentPeriod, now),
                 <<>>, [r \in RoadNames |-> 0])]

\* the dashboard k ticks after a Start command at now, no vehicle having
\* arrived, every streaming call having returned and no refresh having
\* been served: for k = WarmTicks the state ColdLoopSpec reaches by that
\* run (WarmMatchesCold)
WarmLoop(k) ==
    \E now \in WallClockTimes, scenario \in ScenarioInputs :
        LET history == QuietHistory(k, now, scenario)
        IN  /\ roads = [r \in RoadNames |-> 0]
            /\ vehicles = <<>>
            /\ current_time = now + k
            /\ toll_price = TollAfterAdjustments(k \div AdjustmentPeriod, now)
            /\ revenue = <<>>
            /\ traffic_data = history
            /\ calls = k
            /\ simulation_running = TRUE
            /\ threads = <<[pc |-> "while", scenario |-> scenario,
                            traffic_snapshot |-> history[k],
                            ticks |-> k,
                            adjusted |-> AdjustmentPeriod
                                           * (k \div AdjustmentPeriod)]>>
            /\ simulation_data = history
            /\ stored_data = <<>>
            /\ lastOp = Call("start-btn", 0, "", 0)
            /\ road = None
            /\ pstate = None
            /\ ret = Returned(None)
            /\ config = ModuleConfig
            /\ q_table = None

LoopInit == WarmLoop(WarmTicks)

\* under ColdLoopSpec: the quiet run, WarmTicks ticks after its start,
\* stands in a state of LoopInit
WarmMatchesCold ==
    (/\ Len(threads) = 1
     /\ threads[1].pc = "while"
     /\ threads[1].ticks = WarmTicks
     /\ revenue = <<>>
     /\ vehicles = <<>>
     /\ \A i \in 1..Len(traffic_data) :
           \A r \in RoadNames : traffic_data[i].roads[r].vehicles = 0)
        => LoopInit

LoopNext == run_simulation_background(1, WarmTicks, MaxLoopTicks)

\* one loop that has been running for WarmTicks ticks and runs on
LoopSpec == LoopInit /\ [][LoopNext]_vars

RunNext ==
    \/ update_simulation({"start-btn", "stop-btn"}, 1)
    \/ run_simulation_background(1, 0, MaxRunTicks)

\* the dashboard started once and stopped: one loop from its start to its
\* exit
RunSpec == Init /\ [][RunNext]_vars

\* the engine as reset_simulation leaves it, the clock aside
EngineIsReset ==
    /\ \A r \in RoadNames : roads[r] = 0
    /\ vehicles = <<>>
    /\ revenue = <<>>
    /\ toll_price = TOLL_CONFIG.base_price
    /\ traffic_data = <<>>

\* C12: under any sequence of Start, Stop and Reset commands interleaved
\* with the background loop, at most one tick loop advances the engine: no
\* two simulate_step executions are in flight at the same time and no
\* second loop is started while an earlier one is still alive.
Cex_C12_AtMostOneLoop ==
    /\ Cardinality({t \in 1..Len(threads) : Alive(t)}) <= 1
    /\ Cardinality({t \in 1..Len(threads) : InTick(t)}) <= 1

\* C13: stopping or resetting takes effect only between ticks:
\* reset_simulation never runs while a tick of the background loop is in
\* progress, and once a Reset command has returned the engine stays in its
\* reset state until the next Start command.
Cex_C13_ResetOnlyBetweenTicks ==
    lastOp.name = "reset-btn"
        => /\ lastOp.before = 0
           /\ EngineIsReset

\* C14: a failure of the streaming collaborator during a loop iteration
\* never aborts the tick loop and never changes engine state: the tick
\* that produced the snapshot stays fully applied, and once the handler
\* has run the loop stands exactly where a successful call leaves it.
Thm_C14_StreamingFailureIsContained ==
    [][\A t \in 1..Len(threads) :
          /\ (threads[t].pc = "stream" /\ threads'[t].pc # "stream")
                => /\ threads'[t] \in {[threads[t] EXCEPT !.pc = "except"],
                                       [threads[t] EXCEPT !.pc = "trim"]}
                   /\ UNCHANGED <<engineVars, simulation_data, simulation_running>>
          /\ (threads[t].pc = "except" /\ threads'[t].pc # "except")
                => /\ threads'[t] = [threads[t] EXCEPT !.pc = "trim"]
                   /\ UNCHANGED <<engineVars, simulation_data, simulation_running>>]_vars

Wit_C14_StreamRaisedAfterSecondTick ==
    /\ Len(threads) = 1
    /\ threads[1].pc = "except"
    /\ Len(traffic_data) = 2
    /\ traffic_data[2] = threads[1].traffic_snapshot
    /\ simulation_data = traffic_data
    /\ vehicles # <<>>

\* config.py: "TOLL_ADJUSTMENT_INTERVAL = 15  # minutes"
TOLL_ADJUSTMENT_INTERVAL == 15

\* C20: while a tick loop keeps running, the pricing controller is
\* consulted and its proposal applied through update_toll_price once every
\* TOLL_ADJUSTMENT_INTERVAL ticks, however many ticks have elapsed: the
\* tick after which the loop adjusts is every 15th one and no other.
Cex_C20_AdjustsEveryFifteenthTick ==
    \A t \in 1..Len(threads) :
        threads[t].pc = "stream"
            => (threads[t].adjusted = threads[t].ticks
                  <=> threads[t].ticks % TOLL_ADJUSTMENT_INTERVAL = 0)

\* C11: for every pricing strategy the loop can be wired to (rule-based,
\* trained, hybrid), an internal error while producing a recommendation
\* (missing or untrained model, failing prediction) never reaches the
\* caller: get_price_recommendation returns a price, the one of the
\* strategy's rule-based path.
Cex_C11_ErrorsFallBackToRules ==
    /\ Recommended => ~ret.raised
    /\ (lastOp.name = "TrainedPricingModel.get_price_recommendation"
          /\ FallsBack(lastOp.arg))
          => ~ret.raised /\ ret.value = fallback_pricing(pstate)
    /\ (lastOp.name = "HybridPricingModel.get_price_recommendation"
          /\ (lastOp.before.raises \/ ~lastOp.arg.use_ml))
          => ~ret.raised /\ ret.value = calculate_price(pstate)

\* C19: whenever the trained strategy falls back (model missing, untrained
\* or prediction raising), the price it returns equals, for every state,
\* the price SimplePricingModel.get_price_recommendation returns for it.
Cex_C19_FallbackEqualsRuleBased ==
    (lastOp.name = "TrainedPricingModel.get_price_recommendation"
        /\ FallsBack(lastOp.arg))
        => ~ret.raised /\ ret.value = get_price_recommendation(pstate)

(***************************************************************************)
(* AgentSpec: the adaptive controller QLearningTollAgent (rl_agent/        *)
(* q_learning_agent.py) trained by its callers and by ModelUpdater         *)
(* (rl_agent/model_updater.py), and asked for recommendations.             *)
(* Tolls and actions are whole HKD, a congestion is given in tenths, a     *)
(* Q-value or reward is an integer number of 1/QUnit.                      *)
(***************************************************************************)
MaxTrain == 2        \* training steps followed

\* one reward unit: exact for MaxTrain successive updates by
\* learning_rate 1/10 and discount_factor 19/20
QUnit == Pow(200, MaxTrain)

\* self.actions
actions == <<-5, -2, -1, 0, 1, 2, 5>>

ActionSet == {actions[i] : i \in 1..Len(actions)}

\* as <<numerator, denominator>>
learning_rate == <<1, 10>>

discount_factor == <<19, 20>>

congestion_bins == <<0, 3, 6, 8, 10>>

revenue_bins == <<0, 25000, 50000, 75000, 100000>>

time_bins == <<0, 6, 9, 17, 20, 24>>

\* np.digitize(x, bins) for increasing bins
digitize(x, bins) == Cardinality({i \in 1..Len(bins) : bins[i] <= x})

\* discretize_state(traffic_state) when datetime.now().hour is hour
discretize_state(traffic_state, hour) ==
    <<digitize(traffic_state.avg_congestion, congestion_bins) - 1,
      digitize(traffic_state.revenue_per_hour, revenue_bins) - 1,
      digitize(hour, time_bins) - 1,
      Min(traffic_state.total_vehicles \div 500, 4)>>

\* self.q_table[state_key] without creating it
q_values_of(table, state_key) ==
    IF state_key \in DOMAIN table THEN table[state_key] ELSE <<>>

\* the position of action among the keys of q_values, 0 when it is no key
KeyIndex(q_values, action) ==
    IF \E i \in 1..Len(q_values) : q_values[i].action = action
    THEN CHOOSE i \in 1..Len(q_values) : q_values[i].action = action
    ELSE 0

\* max(q_values.values())
MaxQ(q_values) ==
    CHOOSE m \in {q_values[i].q : i \in 1..Len(q_values)} :
        \A i \in 1..Len(q_values) : q_values[i].q <= m

\* max(q_values.keys(), key=lambda a: q_values[a]): the first key, in
\* insertion order, of the largest value
best_action(q_values) ==
    LET first == CHOOSE i \in 1..Len(q_values) :
                     /\ q_values[i].q = MaxQ(q_values)
                     /\ \A j \in 1..(i - 1) : q_values[j].q # MaxQ(q_values)
    IN  q_values[first].action

\* get_action(state, explore): explores says whether np.random.random()
\* fell below epsilon, random_action is what np.random.choice would pick
get_action(table, state, explore, explores, random_action) ==
    IF explore /\ explores THEN random_action
    ELSE IF state \notin DOMAIN table THEN 0
    ELSE IF table[state] = <<>> THEN 0
    ELSE best_action(table[state])

\* current_q + learning_rate * (reward + discount_factor * max_next_q
\*                               - current_q)
new_q_value(current_q, reward, max_next_q) ==
    LET target == reward + (max_next_q \div discount_factor[2]) * discount_factor[1]
    IN  current_q + ((target - current_q) \div learning_rate[2]) * learning_rate[1]

\* the table after update_q_value(state, action, reward, next_state); the
\* read self.q_table[state_key][action] of the nested defaultdict creates
\* the entry with 0.0 before the next state's values are looked at
update_q_value(table, state, action, reward, next_state) ==
    LET q_values == q_values_of(table, state)
        read == IF KeyIndex(q_values, action) = 0
                THEN Append(q_values, [action |-> action, q |-> 0])
                ELSE q_values
        i == KeyIndex(read, action)
        current_q == read[i].q
        next_values == IF next_state = state THEN read
                       ELSE q_values_of(table, next_state)
        max_next_q == IF next_values # <<>> THEN MaxQ(next_values) ELSE 0
        new_q == new_q_value(current_q, reward, max_next_q)
    IN  [k \in DOMAIN table \cup {state} |->
            IF k = state THEN [read EXCEPT ![i].q = new_q] ELSE table[k]]

\* the sum of f[x] over the members x of a finite set
RECURSIVE SumOver(_, _)
SumOver(S, f) ==
    IF S = {} THEN 0
    ELSE LET x == CHOOSE y \in S : TRUE IN f[x] + SumOver(S \ {x}, f)

\* calculate_traffic_balance(state): max(0, 10 - variance * 100) of the
\* roads' congestion levels, 0 for fewer than three roads
calculate_traffic_balance(state) ==
    LET rs == DOMAIN state.roads
        sum == SumOver(rs, [r \in rs |-> state.roads[r].congestion])
        squares == SumOver(rs, [r \in rs |-> state.roads[r].congestion
                                                 * state.roads[r].congestion])
        n == Cardinality(rs)
    IN  IF n < 3 THEN 0
        ELSE Max(0, 10 - (n * squares - sum * sum) \div (n * n))

\* calculate_reward(old_state, new_state, action, toll_price)
calculate_reward(old_state, new_state, toll) ==
    LET revenue_improvement ==
            (new_state.revenue_per_hour - old_state.revenue_per_hour) \div 1000
        congestion_improvement ==
            (old_state.avg_congestion - new_state.avg_congestion) * 10
        traffic_balance == calculate_traffic_balance(new_state)
        toll_penalty == IF toll < 18 \/ toll > 55 THEN -10 ELSE 0
    IN  (QUnit \div 10) * (revenue_improvement * 5 + congestion_improvement * 3
                             + traffic_balance * 2 + toll_penalty * 10)

\* the action ModelUpdater.process_training_data gives an episode
episode_action(current_toll, next_toll) == next_toll - current_toll

\* ModelUpdater.extract_state(traffic_data)
extract_state(traffic_data_item) ==
    LET rs == DOMAIN traffic_data_item.roads
    IN  [avg_congestion |->
             SumOver(rs, [r \in rs |-> traffic_data_item.roads[r].congestion])
               \div Max(Cardinality(rs), 1),
         total_vehicles |->
             SumOver(rs, [r \in rs |-> traffic_data_item.roads[r].vehicles]),
         revenue_per_hour |-> traffic_data_item.revenue,
         roads |-> traffic_data_item.roads]

\* stored traffic records: a quiet and a congested minute
TrafficRecords ==
    {[revenue |-> 30000,
      roads |-> [r \in RoadNames |-> [vehicles |-> 300, congestion |-> 2]]],
     [revenue |-> 31000,
      roads |-> [r \in RoadNames |-> [vehicles |-> 900, congestion |-> 9]]]}

TrafficStates == {extract_state(d) : d \in TrafficRecords}

\* datetime.now().hour while the agent is used
AgentHours == {8}

\* toll prices in the toll table and asked about
RecordedTolls == {18, 30, 36}

\* actions and rewards a caller of train_step hands over
TrainActions == {-5, 0, 2}

Rewards == {-QUnit, QUnit}

AgentInit ==
    /\ EngineInit(0)
    /\ road = None
    /\ pstate = None
    /\ ret = Returned(None)
    /\ lastOp = NoCall
    /\ DashGlobalsInit
    /\ config = ModuleConfig
    /\ q_table = <<>>

\* lastOp.arg is the update made, lastOp.before the table before it
Agent_train_step ==
    \E old_state \in TrafficStates, new_state \in TrafficStates,
       hour \in AgentHours, action \in TrainActions, reward \in Rewards :
        LET state == discretize_state(old_state, hour)
            next_state == discretize_state(new_state, hour)
        IN  /\ calls < MaxTrain
            /\ q_table' = update_q_value(q_table, state, action, reward, next_state)
            /\ calls' = calls + 1
            /\ ret' = Returned(None)
            /\ lastOp' = Call("train_step",
                              [state |-> state, action |-> action,
                               reward |-> reward, next_state |-> next_state],
                              "", q_table)
            /\ UNCHANGED <<roads, vehicles, current_time, toll_price, revenue,
                           traffic_data, road, pstate, dashVars, config>>

\* ModelUpdater.update_rl_model on the episode process_training_data makes
\* of two consecutive traffic records and their nearest toll records; the
\* table is the one the updates before saved and load_model restores
Agent_update_rl_model ==
    \E old_state \in TrafficStates, new_state \in TrafficStates,
       hour \in AgentHours,
       current_toll \in RecordedTolls, next_toll \in RecordedTolls :
        LET state == discretize_state(old_state, hour)
            next_state == discretize_state(new_state, hour)
            action == episode_action(current_toll, next_toll)
            reward == calculate_reward(old_state, new_state, next_toll)
        IN  /\ calls < MaxTrain
            /\ q_table' = update_q_value(q_table, state, action, reward, next_state)
            /\ calls' = calls + 1
            /\ ret' = Returned(TRUE)
            /\ lastOp' = Call("update_rl_model",
                              [state |-> state, action |-> action,
                               reward |-> reward, next_state |-> next_state],
                              "", q_table)
            /\ UNCHANGED <<roads, vehicles, current_time, toll_price, revenue,
                           traffic_data, road, pstate, dashVars, config>>

\* get_toll_recommendation(traffic_state, current_toll)
Agent_get_toll_recommendation ==
    \E traffic_state \in TrafficStates, hour \in AgentHours,
       current_toll \in RecordedTolls,
       explores \in BOOLEAN, random_action \in {actions[1], actions[Len(actions)]} :
        LET discrete_state == discretize_state(traffic_state, hour)
            action == get_action(q_table, discrete_state, TRUE, explores, random_action)
            new_toll == Max(18, Min(55, current_toll + action))
        IN  /\ ret' = Returned([new_toll |-> new_toll, action |-> action])
            /\ lastOp' = Call("get_toll_recommendation",
                              [state |-> discrete_state, action |-> action,
                               reward |-> 0, next_state |-> discrete_state],
                              "", q_table)
            /\ UNCHANGED <<engineVars, road, pstate, dashVars, config, q_table>>

AgentNext ==
    \/ Agent_train_step
    \/ Agent_update_rl_model
    \/ Agent_get_toll_recommendation

AgentSpec == AgentInit /\ [][AgentNext]_vars

\* C24: after any sequence of train_step and get_toll_recommendation
\* calls, including training driven by ModelUpdater episodes, every price
\* delta get_action selects and get_toll_recommendation applies is a member
\* of the action set {-5, -2, -1, 0, 1, 2, 5}, and so is every action
\* recorded in the Q-table.
Cex_C24_ActionsStayInTheActionSet ==
    /\ \A k \in DOMAIN q_table :
          \A i \in 1..Len(q_table[k]) : q_table[k][i].action \in ActionSet
    /\ lastOp.name = "get_toll_recommendation" => ret.value.action \in ActionSet

\* Q(s, a) of a table, a missing entry counting as 0
QValue(table, state, action) ==
    LET q_values == q_values_of(table, state)
    IN  IF KeyIndex(q_values, action) = 0 THEN 0
        ELSE q_values[KeyIndex(q_values, action)].q

\* C25: update_q_value(s, a, reward, s') sets Q(s,a) to Q(s,a) + alpha *
\* (reward + gamma * max over every action a' of the action set of
\* Q(s',a') - Q(s,a)), a Q entry never written counting as 0, for every
\* table content including s' = s.  Stated for tables that hold actions
\* of the action set only.
Cex_C25_UpdateUsesMaxOverTheActionSet ==
    (/\ lastOp.name \in {"train_step", "update_rl_model"}
     /\ \A k \in DOMAIN q_table :
           \A i \in 1..Len(q_table[k]) : q_table[k][i].action \in ActionSet)
        => LET table == lastOp.before
               update == lastOp.arg
               max_next_q ==
                   CHOOSE m \in {QValue(table, update.next_state, a) : a \in ActionSet} :
                       \A a \in ActionSet : QValue(table, update.next_state, a) <= m
           IN  QValue(q_table, update.state, update.action)
                 = new_q_value(QValue(table, update.state, update.action),
                               update.reward, max_next_q)

\* C30: after a Reset command followed by a Start command, the snapshot
\* history the control layer accumulates and hands to the dashboard store
\* contains only snapshots emitted after that reset: every snapshot in
\* the store is one of the engine's history, which Reset empties and
\* which no tick of so short a run leaves again.
Cex_C30_StoreHoldsOnlySnapshotsSinceReset ==
    \A i \in 1..Len(stored_data) :
        \E j \in 1..Len(traffic_data) : traffic_data[j] = stored_data[i]

(***************************************************************************)
(* RefreshSpec: the loop of a long-running dashboard and the periodic      *)
(* refresh of update_simulation (dcc.Interval 'interval-component').       *)
(***************************************************************************)
RefreshWarmTicks == 999   \* ticks the loop has made when it is met
MaxRefreshTicks == 1002   \* ticks of that loop in all

RefreshInit == WarmLoop(RefreshWarmTicks)

RefreshNext ==
    \/ update_simulation({"interval-component"}, 1)
    \/ run_simulation_background(1, 0, MaxRefreshTicks)

RefreshSpec == RefreshInit /\ [][RefreshNext]_vars

\* C29: while the background simulation is running, after each refresh of
\* update_simulation that follows new ticks stored_data ends with the most
\* recently emitted snapshot, the newest one of simulation_data at the
\* refresh, for runs of any length.
Cex_C29_RefreshStoresNewestSnapshot ==
    (/\ lastOp.name = "interval-component"
     /\ lastOp.arg # 0
     /\ simulation_running)
        => /\ stored_data # <<>>
           /\ stored_data[Len(stored_data)].timestamp = lastOp.arg

====
